---------------------------- MODULE Spec2Model ----------------------------
(***************************************************************************)
(* Room registry, presence map and socket event fan-out of server.js.      *)
(* Room names are sequences of characters so that trim() is computed.      *)
(* An async handler is a task: its synchronous prefix is one action, the   *)
(* store operation it awaits is a second one, and the code after the       *)
(* await is a third.                                                       *)
(***************************************************************************)
EXTENDS Integers, Sequences, FiniteSets, TLC

VARIABLES rooms, onlineUsers, sockets, messages, tasks, delivered, reply, unhandled

vars == <<rooms, onlineUsers, sockets, messages, tasks, delivered, reply, unhandled>>

----------------------------------------------------------------------------
(* Bounds of the model *)

MaxMsgs == 1
MaxLog == 2
MaxTasks == 2
MaxJoins == 1
MaxUserRooms == 1

----------------------------------------------------------------------------
(* Names *)

main == <<"m", "a", "i", "n">>
chil == <<"c", "h", "i", "l">>
work == <<"w", "o", "r", "k">>
fun == <<"f", "u", "n">>
general == <<"g", "e", "n", "e", "r", "a", "l">>
random == <<"r", "a", "n", "d", "o", "m">>
tech == <<"t", "e", "c", "h">>
music == <<"m", "u", "s", "i", "c">>
lobby == <<"l", "o", "b", "b", "y">>
lobbySp == <<" ">> \o lobby
Empty == <<>>

\* the four rooms README names as default rooms: the initial value of rooms
BuiltinRooms == <<main, chil, work, fun>>

\* the list the delete route compares against
protectedRooms == <<general, random, tech, music>>

Conns == {"A", "B"}

\* room names the create and delete requests of the model carry
CreateNames == {main, general, lobby, lobbySp, Empty}
DeleteNames == {main, general, lobby, lobbySp}

\* (room, username, text) of the chatMessage events: complete with two
\* different texts, and with each field missing in turn
ChatInputs(names) ==
    {<<room, "alice", text>> : room \in names, text \in {"hi", "yo"}}
        \cup {<<Empty, "alice", "hi">>, <<main, "", "hi">>, <<main, "alice", "">>}

----------------------------------------------------------------------------
(* JavaScript helpers *)

\* Array.prototype.includes
Includes(arr, x) == \E i \in DOMAIN arr : arr[i] = x

\* arr.filter((r) => r !== x)
FilterOut(arr, x) == SelectSeq(arr, LAMBDA r : r # x)

\* Array.prototype.reverse
Reverse(arr) == [i \in 1..Len(arr) |-> arr[Len(arr) + 1 - i]]

IsSpace(ch) == ch = " "

RECURSIVE TrimStart(_)
TrimStart(s) == IF s # <<>> /\ IsSpace(Head(s)) THEN TrimStart(Tail(s)) ELSE s

RECURSIVE TrimEnd(_)
TrimEnd(s) ==
    IF s # <<>> /\ IsSpace(s[Len(s)]) THEN TrimEnd(SubSeq(s, 1, Len(s) - 1)) ELSE s

\* String.prototype.trim
Trim(s) == TrimEnd(TrimStart(s))

\* onlineUsers[room] is defined
HasKey(room) == room \in DOMAIN onlineUsers

\* onlineUsers[room] = list
SetKey(ou, room, list) ==
    [r \in (DOMAIN ou) \cup {room} |-> IF r = room THEN list ELSE ou[r]]

\* delete onlineUsers[room]
DeleteKey(ou, room) == [r \in (DOMAIN ou) \ {room} |-> ou[r]]

----------------------------------------------------------------------------
(* socket.io fan-out: who receives an emit *)

\* the node process is alive: an unhandled rejection ends it
Running == ~unhandled

Connected(c) == Running /\ sockets[c].state = "open"

\* io.emit(...)
ToAll(socks) == {c \in Conns : socks[c].state = "open"}

\* an emit to a room that reaches every open socket, in the room or not
ToRoomUnscoped(socks, room) == {c \in Conns : socks[c].state = "open"}

\* io.to(room).emit(...)
ToRoom(socks, room) == {c \in Conns : socks[c].state = "open" /\ room \in socks[c].joined}

\* socket.to(room).emit(...)
ToRoomExcept(socks, room, c) == ToRoom(socks, room) \ {c}

\* socket.emit(...)
ToSelf(socks, c) == IF socks[c].state = "open" THEN {c} ELSE {}

Event(type, payload) == [type |-> type, payload |-> payload]

NoDelivery == [c \in Conns |-> <<>>]

\* one emit added to the deliveries of the step
Emit(d, to, ev) == [c \in Conns |-> IF c \in to THEN Append(d[c], ev) ELSE d[c]]

NoReply == [kind |-> "none", to |-> "", status |-> 0, error |-> "", rooms |-> <<>>]

\* res.status(status).json({ error })
HttpError(status, error) ==
    [kind |-> "http", to |-> "", status |-> status, error |-> error, rooms |-> <<>>]

\* res.json({ success: true, rooms })
HttpOk(list) == [kind |-> "http", to |-> "", status |-> 200, error |-> "", rooms |-> list]

\* cb && cb({ error })
AckError(c, cb, error) ==
    IF cb THEN [kind |-> "ack", to |-> c, status |-> 0, error |-> error, rooms |-> <<>>]
    ELSE NoReply

\* cb && cb({ success: true, rooms })
AckOk(c, cb, list) ==
    IF cb THEN [kind |-> "ack", to |-> c, status |-> 0, error |-> "", rooms |-> list]
    ELSE NoReply

----------------------------------------------------------------------------
(* The message store *)

Record(room, username, text, createdAt) ==
    [room |-> room, username |-> username, text |-> text, createdAt |-> createdAt]

\* Message.find({ room }): the records of the room, in insertion order
FindRoom(log, room) == SelectSeq(log, LAMBDA m : m.room = room)

\* .sort({ createdAt: -1 }): every order of the records with createdAt
\* descending; the store promises no order among equal keys
SortCreatedAtDesc(recs) ==
    LET n == Len(recs)
        perms == {p \in [1..n -> 1..n] : \A i, j \in 1..n : i # j => p[i] # p[j]}
    IN  {[i \in 1..n |-> recs[p[i]]] : p \in
            {q \in perms : \A i, j \in 1..n :
                i < j => recs[q[i]].createdAt >= recs[q[j]].createdAt}}

\* .limit(k)
Limit(recs, k) == SubSeq(recs, 1, IF Len(recs) < k THEN Len(recs) ELSE k)

HistoryLimit == 50

\* Message.find({ room }).sort({ createdAt: -1 }).limit(50).lean(), then
\* history.reverse(): the set of results the query can produce
History(log, room) ==
    {Reverse(Limit(s, HistoryLimit)) : s \in SortCreatedAtDesc(FindRoom(log, room))}

\* createdAt is the clock reading at the insert.  The clock never runs
\* backwards: a new reading equals the latest one taken (the same millisecond)
\* or is later.  The code only compares and copies the readings, so a later
\* reading is the next integer.
Stamps(log) == {log[i].createdAt : i \in DOMAIN log}
LastStamp(log) ==
    IF log = <<>> THEN 0 ELSE CHOOSE t \in Stamps(log) : \A u \in Stamps(log) : u <= t
Now(log) == {LastStamp(log), LastStamp(log) + 1}

----------------------------------------------------------------------------
(* In-flight async handlers *)

Task(kind, c, room, username, text, createdAt) ==
    [kind |-> kind, conn |-> c, room |-> room, username |-> username, text |-> text,
     createdAt |-> createdAt, stage |-> "issued", result |-> <<>>]

RemoveAt(seq, i) == SubSeq(seq, 1, i - 1) \o SubSeq(seq, i + 1, Len(seq))

Awaiting(kind) == {i \in DOMAIN tasks : tasks[i].kind = kind /\ tasks[i].stage = "issued"}
Resumable(kind) == {i \in DOMAIN tasks : tasks[i].kind = kind /\ tasks[i].stage = "done"}

----------------------------------------------------------------------------
EmptyMap == [r \in {} |-> <<>>]

Init ==
    /\ rooms = BuiltinRooms
    /\ onlineUsers = EmptyMap
    /\ sockets = [c \in Conns |-> [state |-> "idle", room |-> Empty, username |-> "", joined |-> {}]]
    /\ messages = <<>>
    /\ tasks = <<>>
    /\ delivered = NoDelivery
    /\ reply = NoReply
    /\ unhandled = FALSE

\* io.on("connection")
Connect(c) ==
    /\ Running
    /\ sockets[c].state = "idle"
    /\ sockets' = [sockets EXCEPT ![c].state = "open"]
    /\ delivered' = NoDelivery
    /\ reply' = NoReply
    /\ UNCHANGED <<rooms, onlineUsers, messages, tasks, unhandled>>

(* ---- room registry: REST routes and the createRoom event ---- *)

\* What a registry handler does to (rooms, onlineUsers): its answer, the two
\* structures after it, and whether it emitted roomsUpdated
Outcome(r, list, ou, emitted) ==
    [reply |-> r, rooms |-> list, onlineUsers |-> ou, roomsUpdated |-> emitted]

\* app.post("/rooms")
PostRoomsResult(list, ou, name) ==
    IF name = Empty
    THEN Outcome(HttpError(400, "Room name required"), list, ou, FALSE)
    ELSE IF Includes(list, name)
    THEN Outcome(HttpError(400, "Room already exists"), list, ou, FALSE)
    ELSE LET pushed == Append(list, name)
         IN  Outcome(HttpOk(pushed), pushed, SetKey(ou, name, <<>>), TRUE)

\* socket.on('createRoom')
CreateRoomResult(list, ou, c, name, cb) ==
    LET n == Trim(name)
    IN  IF n = Empty
        THEN Outcome(AckError(c, cb, "Room name required"), list, ou, FALSE)
        ELSE IF Includes(list, n)
        THEN Outcome(AckError(c, cb, "Room already exists"), list, ou, FALSE)
        ELSE LET pushed == Append(list, n)
             IN  Outcome(AckOk(c, cb, pushed), pushed, SetKey(ou, n, <<>>), TRUE)

\* protectedRooms.includes(roomName)
IsProtected(name) == Includes(protectedRooms, name)

\* app.delete("/rooms/:name")
DeleteRoomResult(list, ou, name) ==
    IF IsProtected(name)
    THEN Outcome(HttpError(400, "Default rooms cannot be deleted"), list, ou, FALSE)
    ELSE IF ~Includes(list, name)
    THEN Outcome(HttpError(404, "Room not found"), list, ou, FALSE)
    ELSE LET kept == FilterOut(list, name)
         IN  Outcome(HttpOk(kept), kept,
                     IF name \in DOMAIN ou THEN DeleteKey(ou, name) ELSE ou, TRUE)

\* the emit confined to the sockets that are in some room
RoomsUpdatedRecipientsJoined(socks) == {c \in ToAll(socks) : socks[c].joined # {}}

\* io.emit("roomsUpdated", rooms): every open socket
RoomsUpdatedRecipients(socks) == ToAll(socks)

\* the handler's outcome takes effect
Apply(out) ==
    /\ rooms' = out.rooms
    /\ onlineUsers' = out.onlineUsers
    /\ reply' = out.reply
    /\ delivered' = IF out.roomsUpdated
                    THEN Emit(NoDelivery, RoomsUpdatedRecipients(sockets),
                              Event("roomsUpdated", out.rooms))
                    ELSE NoDelivery

PostRooms(name) ==
    /\ Running
    /\ Apply(PostRoomsResult(rooms, onlineUsers, name))
    /\ UNCHANGED <<sockets, messages, tasks, unhandled>>

CreateRoom(c, name, cb) ==
    /\ Connected(c)
    /\ Apply(CreateRoomResult(rooms, onlineUsers, c, name, cb))
    /\ UNCHANGED <<sockets, messages, tasks, unhandled>>

DeleteRoom(name) ==
    /\ Running
    /\ Apply(DeleteRoomResult(rooms, onlineUsers, name))
    /\ UNCHANGED <<sockets, messages, tasks, unhandled>>

(* ---- joinRoom ---- *)

\* socket.on("joinRoom"), up to the await
JoinRoom(c, room, username) ==
    /\ Connected(c)
    /\ sockets' = [sockets EXCEPT ![c].joined = @ \cup {room},
                                  ![c].username = username,
                                  ![c].room = room]
    /\ tasks' = Append(tasks, Task("joinRoom", c, room, username, "", 0))
    /\ delivered' = NoDelivery
    /\ reply' = NoReply
    /\ UNCHANGED <<rooms, onlineUsers, messages, unhandled>>

\* the store answers the history query of a join
HistoryFetch(i) ==
    /\ Running
    /\ i \in Awaiting("joinRoom")
    /\ \E h \in History(messages, tasks[i].room) :
          tasks' = [tasks EXCEPT ![i].stage = "done", ![i].result = h]
    /\ delivered' = NoDelivery
    /\ reply' = NoReply
    /\ UNCHANGED <<rooms, onlineUsers, sockets, messages, unhandled>>

\* the push without the includes test before it
PresenceAddAlways(list, username) == Append(list, username)

\* if (!onlineUsers[room].includes(username)) onlineUsers[room].push(username)
PresenceAdd(list, username) ==
    IF Includes(list, username) THEN list ELSE Append(list, username)

\* socket.emit("chatHistory", ...): the joining socket alone
HistoryRecipients(socks, c) == ToSelf(socks, c)

\* socket.on("joinRoom"), after the await
JoinResume(i) ==
    /\ Running
    /\ i \in Resumable("joinRoom")
    /\ LET t == tasks[i]
           d1 == Emit(NoDelivery, HistoryRecipients(sockets, t.conn),
                      Event("chatHistory", t.result))
           ou1 == IF HasKey(t.room) THEN onlineUsers ELSE SetKey(onlineUsers, t.room, <<>>)
           ou2 == [ou1 EXCEPT ![t.room] = PresenceAdd(@, t.username)]
       IN  /\ onlineUsers' = ou2
           /\ delivered' = Emit(d1, ToRoom(sockets, t.room), Event("onlineUsers", ou2[t.room]))
    /\ tasks' = RemoveAt(tasks, i)
    /\ reply' = NoReply
    /\ UNCHANGED <<rooms, sockets, messages, unhandled>>

(* ---- chatMessage ---- *)

\* the guard without its test of text
ChatValidNoText(room, username, text) == room # Empty /\ username # ""

\* if (!room || !username || !text) return;
ChatValid(room, username, text) == room # Empty /\ username # "" /\ text # ""

\* socket.on("chatMessage"), up to the await
ChatMessage(c, room, username, text) ==
    /\ Connected(c)
    /\ IF ~ChatValid(room, username, text) THEN UNCHANGED tasks
       ELSE tasks' = Append(tasks, Task("chatMessage", c, room, username, text, 0))
    /\ delivered' = NoDelivery
    /\ reply' = NoReply
    /\ UNCHANGED <<rooms, onlineUsers, sockets, messages, unhandled>>

\* the store inserts the record of a Message.create
ChatPersist(i) ==
    /\ Running
    /\ i \in Awaiting("chatMessage")
    /\ \E now \in Now(messages) :
          /\ messages' = Append(messages, Record(tasks[i].room, tasks[i].username,
                                                tasks[i].text, now))
          /\ tasks' = [tasks EXCEPT ![i].stage = "done", ![i].createdAt = now]
    /\ delivered' = NoDelivery
    /\ reply' = NoReply
    /\ UNCHANGED <<rooms, onlineUsers, sockets, unhandled>>

\* io.emit in place of io.to(room).emit
ChatRecipientsAll(socks, room) == ToAll(socks)

\* the broadcast confined to the sockets whose join has run to its end, as if
\* socket.join came after the await
ChatRecipientsSettled(socks, room) ==
    {c \in ToRoom(socks, room) :
        ~\E i \in DOMAIN tasks : tasks[i].kind = "joinRoom" /\ tasks[i].conn = c}

\* io.to(room).emit("chatMessage", ...)
ChatRecipients(socks, room) == ToRoom(socks, room)

ChatPayload(t) == [username |-> t.username, text |-> t.text, createdAt |-> t.createdAt]

\* socket.on("chatMessage"), after the await
ChatResume(i) ==
    /\ Running
    /\ i \in Resumable("chatMessage")
    /\ LET t == tasks[i]
       IN  delivered' = Emit(NoDelivery, ChatRecipients(sockets, t.room),
                             Event("chatMessage", ChatPayload(t)))
    /\ tasks' = RemoveAt(tasks, i)
    /\ reply' = NoReply
    /\ UNCHANGED <<rooms, onlineUsers, sockets, messages, unhandled>>

\* the store rejects the awaited operation: the await throws inside an async
\* handler that has no try/catch, and the handler ends there
StoreFail(i) ==
    /\ Running
    /\ i \in DOMAIN tasks
    /\ tasks[i].stage = "issued"
    /\ tasks' = RemoveAt(tasks, i)
    /\ unhandled' = TRUE
    /\ delivered' = NoDelivery
    /\ reply' = NoReply
    /\ UNCHANGED <<rooms, onlineUsers, sockets, messages>>

(* ---- typing ---- *)

\* io.to(room).emit in place of socket.to(room).emit
TypingRecipientsEcho(socks, c, room) == ToRoom(socks, room)

\* socket.to(room).emit("typing", ...)
TypingRecipients(socks, c, room) == ToRoomExcept(socks, room, c)

\* socket.on("typing")
Typing(c, room, username, isTyping) ==
    /\ Connected(c)
    /\ delivered' = Emit(NoDelivery, TypingRecipients(sockets, c, room),
                         Event("typing", [username |-> username, isTyping |-> isTyping]))
    /\ reply' = NoReply
    /\ UNCHANGED <<rooms, onlineUsers, sockets, messages, tasks, unhandled>>

(* ---- disconnect ---- *)

\* onlineUsers[room].filter((u) => u !== username)
PresenceRemove(list, username) == FilterOut(list, username)

\* socket.on("disconnect"): socket.io has taken the socket out of its rooms
\* before the handler runs
Disconnect(c) ==
    /\ Connected(c)
    /\ LET room == sockets[c].room
           username == sockets[c].username
       IN  /\ sockets' = [sockets EXCEPT ![c] =
                  [state |-> "closed", room |-> Empty, username |-> "", joined |-> {}]]
           /\ IF room # Empty /\ HasKey(room)
              THEN /\ onlineUsers' = [onlineUsers EXCEPT ![room] = PresenceRemove(@, username)]
                   /\ delivered' = Emit(NoDelivery, ToRoom(sockets', room),
                                        Event("onlineUsers", onlineUsers'[room]))
              ELSE /\ UNCHANGED onlineUsers
                   /\ delivered' = NoDelivery
    /\ reply' = NoReply
    /\ UNCHANGED <<rooms, messages, tasks, unhandled>>

----------------------------------------------------------------------------
\* connections come and go
ConnStep ==
    \/ \E c \in Conns : Connect(c)
    \/ \E c \in Conns : Disconnect(c)

\* the joinRoom handler and the store operation it awaits, with at most cap
\* handlers in flight
JoinStep(names, users, cap) ==
    \/ \E c \in Conns, room \in names, username \in users :
          Len(tasks) < cap /\ JoinRoom(c, room, username)
    \/ \E i \in 1..cap : HistoryFetch(i)
    \/ \E i \in 1..cap : JoinResume(i)

\* rooms in the registry that were not there at start
UserRooms == Cardinality({i \in DOMAIN rooms : ~Includes(BuiltinRooms, rooms[i])})

\* the name can be created without exceeding the bound on created rooms
Fits(n) == Includes(rooms, n) \/ Includes(BuiltinRooms, n) \/ UserRooms < MaxUserRooms

\* the room registry: the REST routes and the createRoom event
RegistryStep(created, deleted) ==
    \/ \E name \in created : Fits(name) /\ PostRooms(name)
    \/ \E c \in Conns, name \in created, cb \in BOOLEAN :
          Fits(Trim(name)) /\ CreateRoom(c, name, cb)
    \/ \E name \in deleted : DeleteRoom(name)

\* records in the log and on their way to it
InFlightCreates == Cardinality(Awaiting("chatMessage"))

\* chatMessage and typing, with at most cap handlers in flight and at most
\* logCap records in the log
ChatStep(names, users, cap, logCap) ==
    \/ \E c \in Conns, in \in ChatInputs(names) :
          /\ ChatValid(in[1], in[2], in[3]) =>
                Len(tasks) < cap /\ Len(messages) + InFlightCreates < logCap
          /\ ChatMessage(c, in[1], in[2], in[3])
    \/ \E i \in 1..cap : ChatPersist(i)
    \/ \E i \in 1..cap : ChatResume(i)
    \/ \E c \in Conns, room \in names, username \in users, isTyping \in BOOLEAN :
          Typing(c, room, username, isTyping)

\* the store fails an awaited operation
FailStep(cap) == \E i \in 1..cap : StoreFail(i)

\* the whole server
Next ==
    \/ ConnStep
    \/ JoinStep({main, lobby}, {"alice", "bob"}, MaxTasks)
    \/ RegistryStep(CreateNames, DeleteNames)
    \/ ChatStep({main, lobby}, {"alice", "bob"}, MaxTasks, MaxLog)
    \/ FailStep(MaxTasks)

Spec == Init /\ [][Next]_vars

\* The registry handlers read and write rooms and onlineUsers and read which
\* sockets are open; the chat handlers read the sockets' rooms and the messages
\* and write messages; neither writes what the other reads.  The server is
\* explored in parts, each with the connection and join handlers.

\* the registry with every name, one room to join
NextRooms ==
    \/ ConnStep
    \/ JoinStep({main}, {"alice"}, MaxTasks)
    \/ RegistryStep(CreateNames, DeleteNames)
    \/ FailStep(MaxTasks)

SpecRooms == Init /\ [][NextRooms]_vars

\* presence with two rooms to join, both of which can be deleted and created
NextPresence ==
    \/ ConnStep
    \/ JoinStep({main, lobby}, {"alice"}, MaxJoins)
    \/ RegistryStep({main, lobby}, {main, lobby})
    \/ FailStep(MaxJoins)

SpecPresence == Init /\ [][NextPresence]_vars

\* presence with two usernames in one room
NextUsers ==
    \/ ConnStep
    \/ JoinStep({main}, {"alice", "bob"}, MaxTasks)
    \/ RegistryStep({main}, {main})
    \/ FailStep(MaxTasks)

SpecUsers == Init /\ [][NextUsers]_vars

\* the registry with every name and one join at a time, for the broadcasts
\* of the room list
NextBroadcast ==
    \/ ConnStep
    \/ JoinStep({main}, {"alice"}, MaxJoins)
    \/ RegistryStep(CreateNames, DeleteNames)
    \/ FailStep(MaxJoins)

SpecBroadcast == Init /\ [][NextBroadcast]_vars

\* messages, history and typing with the registry left alone
ChatNames == {main}
ChatUsers == {"alice"}

NextChat ==
    \/ ConnStep
    \/ JoinStep(ChatNames, ChatUsers, MaxTasks)
    \/ ChatStep(ChatNames, ChatUsers, MaxTasks, MaxMsgs)
    \/ FailStep(MaxTasks)

SpecChat == Init /\ [][NextChat]_vars

\* the same with a longer log, for the order of the records
NextLog ==
    \/ ConnStep
    \/ JoinStep(ChatNames, ChatUsers, MaxTasks)
    \/ ChatStep(ChatNames, ChatUsers, MaxTasks, MaxLog)
    \/ FailStep(MaxTasks)

SpecLog == Init /\ [][NextLog]_vars

\* two rooms to join, messages and typing in one of them
ScopeNames == {main, lobby}

NextScope ==
    \/ ConnStep
    \/ JoinStep(ScopeNames, ChatUsers, MaxJoins)
    \/ ChatStep(ChatNames, ChatUsers, MaxJoins, MaxMsgs)
    \/ FailStep(MaxJoins)

SpecScope == Init /\ [][NextScope]_vars

----------------------------------------------------------------------------
(* Room registry *)

Protected == HttpError(400, "Default rooms cannot be deleted")
AlreadyExists == "Room already exists"

BuiltinNames == {BuiltinRooms[i] : i \in DOMAIN BuiltinRooms}

\* C1: the four rooms of the start are always in the registry, and a delete
\* request that names one of them is answered with the Protected error and
\* leaves the room list and the presence map as they were.
C1_BuiltinsProtected ==
    /\ [](\A b \in BuiltinNames : Includes(rooms, b))
    /\ [][\A b \in BuiltinNames :
            DeleteRoom(b) => reply' = Protected /\ UNCHANGED <<rooms, onlineUsers>>]_vars

\* C6: creating a room whose name is in the registry fails with AlreadyExists
\* on the REST route and on the createRoom event alike, changes neither the
\* room list nor the presence map and emits no roomsUpdated.
C6_CreateExistingFails ==
    \A i \in DOMAIN rooms :
        LET name == rooms[i]
        IN  /\ PostRoomsResult(rooms, onlineUsers, name)
                  = Outcome(HttpError(400, AlreadyExists), rooms, onlineUsers, FALSE)
            /\ \A c \in Conns :
                  CreateRoomResult(rooms, onlineUsers, c, name, TRUE)
                      = Outcome(AckError(c, TRUE, AlreadyExists), rooms, onlineUsers, FALSE)

\* C7: from every reachable registry, for every name r that is not one of the
\* four built-in rooms, create(r) and then delete(r) gives back the room list
\* there was before the create, by the REST route and by the createRoom event.
C7_CreateDeleteRoundTrip ==
    \A r \in (CreateNames \ {Empty}) \ BuiltinNames :
        LET posted == PostRoomsResult(rooms, onlineUsers, r)
            created == CreateRoomResult(rooms, onlineUsers, "A", r, TRUE)
        IN  /\ DeleteRoomResult(posted.rooms, posted.onlineUsers, r).rooms = rooms
            /\ DeleteRoomResult(created.rooms, created.onlineUsers, r).rooms = rooms

----------------------------------------------------------------------------
(* Messages, history and typing *)

\* connection c is open and in the broadcast group of room
Subscribed(c, room) == sockets[c].state = "open" /\ room \in sockets[c].joined

\* the events of one type among those delivered to c in the step
Received(c, type) == SelectSeq(delivered[c], LAMBDA e : e.type = type)

ChatEvent(t) ==
    Event("chatMessage", [username |-> t.username, text |-> t.text, createdAt |-> t.createdAt])

\* C2: a chatMessage event with room, username and text becomes one pending
\* insert; the store appends exactly its one record; the broadcast that
\* follows delivers {username, text, createdAt} exactly once to each
\* connection subscribed to the room at that moment, the sender included,
\* and to nobody else; and no chatMessage is delivered whose record is not
\* in the log.
C2_PersistThenBroadcast ==
    /\ [][\A c \in Conns, in \in ChatInputs(ChatNames) :
            (in[1] # Empty /\ in[2] # "" /\ in[3] # "" /\ ChatMessage(c, in[1], in[2], in[3]))
                => /\ Len(tasks') = Len(tasks) + 1
                   /\ tasks'[Len(tasks')].kind = "chatMessage"
                   /\ messages' = messages]_vars
    /\ [][\A i \in DOMAIN tasks :
            ChatPersist(i) =>
                /\ Len(messages') = Len(messages) + 1
                /\ SubSeq(messages', 1, Len(messages)) = messages
                /\ LET m == messages'[Len(messages')]
                   IN  /\ m.room = tasks[i].room
                       /\ m.username = tasks[i].username
                       /\ m.text = tasks[i].text
                       /\ m.createdAt = tasks'[i].createdAt]_vars
    /\ [][\A i \in DOMAIN tasks :
            ChatResume(i) =>
                /\ messages' = messages
                /\ \A c \in Conns :
                      delivered'[c] = IF Subscribed(c, tasks[i].room)
                                      THEN <<ChatEvent(tasks[i])>> ELSE <<>>]_vars
    /\ [](\A c \in Conns : \A k \in DOMAIN delivered[c] :
            delivered[c][k].type = "chatMessage" =>
                \E j \in DOMAIN messages :
                    /\ messages[j].username = delivered[c][k].payload.username
                    /\ messages[j].text = delivered[c][k].payload.text
                    /\ messages[j].createdAt = delivered[c][k].payload.createdAt
                    /\ Subscribed(c, messages[j].room))

\* two connections are in main and both have just received alice's "hi"
C2_Witness ==
    /\ \A c \in Conns : Subscribed(c, main)
    /\ \A c \in Conns :
          /\ Len(delivered[c]) = 1
          /\ delivered[c][1].type = "chatMessage"
          /\ delivered[c][1].payload.username = "alice"
          /\ delivered[c][1].payload.text = "hi"

\* the last n elements of a sequence
LastN(seq, n) == SubSeq(seq, IF Len(seq) > n THEN Len(seq) - n + 1 ELSE 1, Len(seq))

\* C3: the history fetched for a join is the last min(50, n) of the n records
\* the room has at fetch time, in insertion order (also among records with
\* equal createdAt), and chatHistory goes to the joining connection alone.
C3_HistoryLastFifty ==
    /\ [][\A i \in DOMAIN tasks :
            HistoryFetch(i) =>
                tasks'[i].result = LastN(FindRoom(messages, tasks[i].room), 50)]_vars
    /\ [][\A i \in DOMAIN tasks :
            JoinResume(i) =>
                \A c \in Conns :
                    Received(c, "chatHistory")' =
                        IF c = tasks[i].conn /\ sockets[c].state = "open"
                        THEN <<Event("chatHistory", tasks[i].result)>> ELSE <<>>]_vars

\* C4: a typing event from connection c for room r reaches every connection
\* subscribed to r except c, does not come back to c, reaches nobody else,
\* and leaves the room list, the presence map and the message log alone.
C4_TypingNotEchoed ==
    [][\A c \in Conns, r \in ChatNames, u \in ChatUsers, t \in BOOLEAN :
          Typing(c, r, u, t) =>
              /\ \A d \in Conns :
                    delivered'[d] = IF d # c /\ Subscribed(d, r)
                                    THEN <<Event("typing", [username |-> u, isTyping |-> t])>>
                                    ELSE <<>>
              /\ UNCHANGED <<rooms, onlineUsers, messages>>]_vars

\* both connections are in main and exactly one of them has just received a
\* typing event
C4_Witness ==
    /\ \A c \in Conns : Subscribed(c, main)
    /\ \E c \in Conns :
          /\ delivered[c] = <<>>
          /\ \A d \in Conns \ {c} : Len(delivered[d]) = 1 /\ delivered[d][1].type = "typing"

\* a chatMessage event with room, username or text missing
Incomplete(in) == in[1] = Empty \/ in[2] = "" \/ in[3] = ""

\* C5: a chatMessage event with room, username or text empty is dropped: no
\* record is appended nor put on its way to the log, nothing is delivered,
\* the room list and the presence map stay; so the log never holds a record
\* with an empty field.
C5_IncompleteDropped ==
    /\ [][\A c \in Conns, in \in ChatInputs(ChatNames) :
            (Incomplete(in) /\ ChatMessage(c, in[1], in[2], in[3]))
                => /\ UNCHANGED <<messages, tasks, rooms, onlineUsers>>
                   /\ delivered' = NoDelivery]_vars
    /\ [](\A j \in DOMAIN messages :
            messages[j].room # Empty /\ messages[j].username # "" /\ messages[j].text # "")
    /\ [](\A i \in DOMAIN tasks :
            tasks[i].kind = "chatMessage" =>
                tasks[i].room # Empty /\ tasks[i].username # "" /\ tasks[i].text # "")

\* an incomplete chatMessage arrives from a connection in main right after a
\* broadcast, with a record in the log, and its handler's step is visible
C5_Witness ==
    /\ messages # <<>>
    /\ \E c \in Conns :
          /\ Subscribed(c, main)
          /\ Received(c, "chatMessage") # <<>>
          /\ ENABLED <<ChatMessage(c, main, "alice", "")>>_vars

----------------------------------------------------------------------------
(* Presence *)

\* no handler is suspended at an await and the process is alive
Quiet == tasks = <<>> /\ Running

NoDuplicates(list) == \A i, j \in DOMAIN list : i # j => list[i] # list[j]

\* C8: no room's presence list holds a username twice, whatever joins,
\* disconnects, creates and deletes have happened.
C8_PresenceNoDuplicates == \A r \in DOMAIN onlineUsers : NoDuplicates(onlineUsers[r])

\* both connections have joined main as alice, the later of the joins has
\* just finished, and main lists alice once
C8_Witness ==
    /\ Quiet
    /\ \A c \in Conns : Subscribed(c, main) /\ sockets[c].username = "alice"
    /\ onlineUsers[main] = <<"alice">>
    /\ \E c \in Conns : Received(c, "chatHistory") # <<>> /\ Len(delivered[c]) = 2
                        /\ delivered[c][2].payload = <<"alice">>

\* C9: when no handler is in flight, every username in a room's presence list
\* is the username of some open connection whose current room is that room.
C9_PresenceBacked ==
    Quiet =>
        \A r \in DOMAIN onlineUsers : \A k \in DOMAIN onlineUsers[r] :
            \E c \in Conns :
                /\ sockets[c].state = "open"
                /\ sockets[c].room = r
                /\ sockets[c].username = onlineUsers[r][k]

\* C10: when no handler is in flight, every open connection that has joined a
\* room is listed under its username in that room's presence list.
C10_JoinedListed ==
    Quiet =>
        \A c \in Conns :
            (sockets[c].state = "open" /\ sockets[c].room # Empty) =>
                /\ sockets[c].room \in DOMAIN onlineUsers
                /\ Includes(onlineUsers[sockets[c].room], sockets[c].username)

----------------------------------------------------------------------------
(* Registry, presence and connections together *)

\* the names in the room registry
Registered == {rooms[i] : i \in DOMAIN rooms}

\* C11: every room name that is a key of the presence map, or the current room
\* of an open connection, is in the room registry: a joinRoom for a name that
\* is not registered leaves no trace, and a deleted room has no presence entry
\* and no connection in it until it is created again.
C11_ReferencedRoomsRegistered ==
    /\ \A r \in DOMAIN onlineUsers : r \in Registered
    /\ \A c \in Conns :
          (sockets[c].state = "open" /\ sockets[c].room # Empty) =>
              sockets[c].room \in Registered

\* C13: a username is in the presence list of at most one room, whatever
\* joins and disconnects have happened.
C13_OneRoomPerUsername ==
    \A r1 \in DOMAIN onlineUsers : \A r2 \in DOMAIN onlineUsers :
        \A k \in DOMAIN onlineUsers[r1] :
            Includes(onlineUsers[r2], onlineUsers[r1][k]) => r1 = r2

\* C14: every name in the room registry is non-empty and carries no leading
\* or trailing whitespace, and a create request leaves the same room list
\* whether it comes by the REST route or by the createRoom event: the list
\* as it was for an empty name, the trimmed name stored otherwise.
C14_NamesTrimmed ==
    /\ \A i \in DOMAIN rooms : rooms[i] # Empty /\ Trim(rooms[i]) = rooms[i]
    /\ \A name \in CreateNames : \A c \in Conns :
          PostRoomsResult(rooms, onlineUsers, name).rooms
              = CreateRoomResult(rooms, onlineUsers, c, name, TRUE).rooms

----------------------------------------------------------------------------
(* Order, failure, leaving *)

\* the chatMessage handlers of the same connection for the same room that
\* started before handler i and are still in flight, with a text a receiver
\* can tell from that of handler i
EarlierSends(i) ==
    {j \in 1..(i - 1) : /\ tasks[j].kind = "chatMessage"
                        /\ tasks[j].conn = tasks[i].conn
                        /\ tasks[j].room = tasks[i].room
                        /\ tasks[j].text # tasks[i].text}

\* C12: the messages one connection sends to one room are persisted and
\* broadcast in the order their chatMessage events arrived: a record is
\* not inserted while an earlier send of that connection still awaits its
\* insert, and a send is not broadcast while an earlier one is unfinished.
C12_SendOrderKept ==
    /\ [][\A i \in DOMAIN tasks :
            ChatPersist(i) => \A j \in EarlierSends(i) : tasks[j].stage # "issued"]_vars
    /\ [][\A i \in DOMAIN tasks : ChatResume(i) => EarlierSends(i) = {}]_vars

\* C16: when the store fails the operation a joinRoom or chatMessage handler
\* awaits, the failure does not escape the handler: the connection that sent
\* the event gets an error event, gets no chatMessage and no chatHistory,
\* nobody else gets anything, and the process goes on.
C16_StoreFailureRecovered ==
    /\ [][\A i \in DOMAIN tasks :
            StoreFail(i) =>
                /\ unhandled' = FALSE
                /\ Received(tasks[i].conn, "error")' # <<>>
                /\ \A c \in Conns : Received(c, "chatMessage")' = <<>>
                                    /\ Received(c, "chatHistory")' = <<>>]_vars
    /\ [](unhandled = FALSE)

\* C17: when the join of a connection to a room completes, the connection
\* is subscribed to no other room, and no other room lists its username
\* unless another open connection is in that room under that username.
C17_RejoinLeavesOldRoom ==
    [][\A i \in DOMAIN tasks :
          (JoinResume(i) /\ sockets[tasks[i].conn].state = "open") =>
              LET t == tasks[i]
              IN  /\ sockets'[t.conn].joined \subseteq {t.room}
                  /\ \A r1 \in (DOMAIN onlineUsers') \ {t.room} :
                        Includes(onlineUsers'[r1], t.username) =>
                            \E d \in Conns \ {t.conn} :
                                /\ sockets'[d].state = "open"
                                /\ sockets'[d].room = r1
                                /\ sockets'[d].username = t.username]_vars

\* the presence list of a room, empty when the map has no entry for it
Presence(ou, room) == IF room \in DOMAIN ou THEN ou[room] ELSE <<>>

\* C18: when a connection whose current room is r and username is u
\* disconnects, the presence of r no longer holds u and every connection
\* still subscribed to r receives one onlineUsers event with that presence;
\* when a connection that never joined disconnects, no presence list changes
\* and nothing is delivered.
C18_DisconnectLeaves ==
    [][\A c \in Conns :
          Disconnect(c) =>
              LET r == sockets[c].room
                  u == sockets[c].username
              IN  IF r = Empty
                  THEN onlineUsers' = onlineUsers /\ delivered' = NoDelivery
                  ELSE /\ ~Includes(Presence(onlineUsers', r), u)
                       /\ \A d \in Conns \ {c} :
                             Subscribed(d, r) =>
                                 delivered'[d] =
                                     <<Event("onlineUsers", Presence(onlineUsers', r))>>]_vars

----------------------------------------------------------------------------
(* roomsUpdated *)

\* every open connection has just received one roomsUpdated event carrying
\* the room list, and that is all anybody received
RoomsBroadcast ==
    \A c \in Conns :
        delivered[c] = IF sockets[c].state = "open"
                       THEN <<Event("roomsUpdated", rooms)>> ELSE <<>>

\* the createRoom event carries a name the handler accepts
Creatable(name) == Trim(name) # Empty /\ ~Includes(rooms, Trim(name))

\* C15: a create or delete that succeeds changes the room list and is
\* followed at once by one roomsUpdated event to every open connection, in a
\* room or not, carrying the list as it is after the operation; a request
\* that fails emits nothing; the room list changes in no other way and a
\* roomsUpdated event never carries anything but the current list.  So the
\* last roomsUpdated a connection received while it stayed open carries the
\* current list.
C15_RoomsUpdatedBroadcast ==
    /\ [][\A name \in CreateNames \cup DeleteNames :
            (reply'.status = 200 /\ (PostRooms(name) \/ DeleteRoom(name)))
                => rooms' # rooms /\ reply'.rooms = rooms' /\ RoomsBroadcast']_vars
    /\ [][\A name \in CreateNames :
            Creatable(name) =>
                \A c \in Conns, cb \in BOOLEAN :
                    CreateRoom(c, name, cb)
                        => rooms' = Append(rooms, Trim(name)) /\ RoomsBroadcast']_vars
    /\ [][(reply'.kind # "none" /\ reply'.error # "")
                => rooms' = rooms /\ delivered' = NoDelivery]_vars
    /\ [][rooms' # rooms => RoomsBroadcast']_vars
    /\ [](\A c \in Conns : \A k \in DOMAIN delivered[c] :
            delivered[c][k].type = "roomsUpdated" =>
                delivered[c][k].payload = rooms /\ RoomsBroadcast)

\* main has been deleted and lobby created, and the later of the two has just
\* been announced to both connections, one of which is in a room and the
\* other in none
C15_Witness ==
    /\ ~Includes(rooms, main) /\ Includes(rooms, lobby)
    /\ \E c \in Conns : sockets[c].joined # {}
    /\ \E c \in Conns : sockets[c].joined = {}
    /\ \A c \in Conns : sockets[c].state = "open"
    /\ RoomsBroadcast

----------------------------------------------------------------------------
(* History snapshot and live stream *)

Range(seq) == {seq[i] : i \in DOMAIN seq}

\* C19: no message falls between the history snapshot and the live stream.
\* An open connection with a join in flight is already subscribed to the
\* room, and a connection stays subscribed for as long as it is open.  When
\* the history query of a join is answered, the snapshot holds every record
\* the room has at that moment (up to 50), and when the join ends the
\* snapshot goes to the joining connection.  Every insert leaves a broadcast
\* pending, and a pending broadcast goes away only by being delivered to
\* every connection subscribed at that moment, those whose join is still in
\* flight included.  So a record inserted before the query is answered is in
\* the snapshot, and one inserted after it is delivered live.
C19_NoGapHistoryLive ==
    /\ [](\A i \in DOMAIN tasks :
            (tasks[i].kind = "joinRoom" /\ sockets[tasks[i].conn].state = "open")
                => Subscribed(tasks[i].conn, tasks[i].room))
    /\ [][\A c \in Conns, r \in ChatNames :
            (Subscribed(c, r) /\ sockets'[c].state = "open") => Subscribed(c, r)']_vars
    /\ [][\A i \in DOMAIN tasks :
            (/\ tasks[i].kind = "joinRoom" /\ tasks[i].stage = "issued"
             /\ Len(tasks') = Len(tasks) /\ tasks'[i] # tasks[i])
                => LET recs == FindRoom(messages, tasks[i].room)
                   IN  /\ tasks'[i] = [tasks[i] EXCEPT !.stage = "done",
                                                      !.result = tasks'[i].result]
                       /\ Len(recs) <= HistoryLimit
                             => Range(tasks'[i].result) = Range(recs)]_vars
    /\ [][\A i \in DOMAIN tasks :
            (/\ tasks[i].kind = "joinRoom" /\ tasks[i].stage = "done"
             /\ tasks' = RemoveAt(tasks, i))
                => \A c \in Conns :
                      (c = tasks[i].conn /\ sockets[c].state = "open") =>
                          Received(c, "chatHistory")'
                              = <<Event("chatHistory", tasks[i].result)>>]_vars
    /\ [][Len(messages') > Len(messages) =>
            \E i \in DOMAIN tasks' :
                LET m == messages'[Len(messages')]
                IN  /\ tasks'[i].kind = "chatMessage" /\ tasks'[i].stage = "done"
                    /\ tasks'[i].room = m.room /\ tasks'[i].username = m.username
                    /\ tasks'[i].text = m.text /\ tasks'[i].createdAt = m.createdAt]_vars
    /\ [][IF Len(tasks') < Len(tasks)
          THEN \E k \in DOMAIN tasks : tasks' = RemoveAt(tasks, k)
          ELSE \A i \in DOMAIN tasks :
                  (tasks[i].kind = "chatMessage" /\ tasks[i].stage = "done")
                      => tasks'[i] = tasks[i]]_vars
    /\ [][\A i \in DOMAIN tasks :
            (/\ tasks[i].kind = "chatMessage" /\ tasks[i].stage = "done"
             /\ tasks' = RemoveAt(tasks, i))
                => \A c \in Conns :
                      Subscribed(c, tasks[i].room) =>
                          Received(c, "chatMessage")' = <<ChatEvent(tasks[i])>>]_vars

\* a connection whose join still waits to resume, with an empty snapshot
\* fetched, has just received live the message inserted after the fetch
C19_Witness ==
    \E i \in DOMAIN tasks :
        /\ tasks[i].kind = "joinRoom" /\ tasks[i].stage = "done"
        /\ tasks[i].result = <<>>
        /\ FindRoom(messages, tasks[i].room) # <<>>
        /\ Subscribed(tasks[i].conn, tasks[i].room)
        /\ Received(tasks[i].conn, "chatMessage") # <<>>

----------------------------------------------------------------------------
(* Confinement of the room events *)

\* every connection that received an event of the type in the step has
\* issued joinRoom for the room since it connected
OnlyJoined(type, room) ==
    \A c \in Conns : Received(c, type)' # <<>> => room \in sockets[c].joined

=============================================================================
